---- MODULE Spec2Model ----
(***************************************************************************)
(* A model of src/src/npm_rc/mod.rs: the .npmrc configuration builder      *)
(* (NpmRc::parse), the variable expander (expand_vars), the resolver       *)
(* (NpmRc::registry_url_and_config_for_maybe_scope) and the resolved view  *)
(* (NpmRc::as_resolved, ResolvedNpmRc).                                    *)
(*                                                                         *)
(* A Rust string is a sequence of one-character strings, so that slicing,  *)
(* split_once, rfind and strip_prefix are computed as the code computes    *)
(* them.  Option<T> is a sequence of length 0 (None) or 1 (Some(v)).       *)
(***************************************************************************)
EXTENDS Integers, Sequences, FiniteSets, TLC

VARIABLES
  pc,           \* "parsing": inside the loop of NpmRc::parse; "parsed": Ok(rc_file)
                \* returned; "resolved": as_resolved called, its outcome is what is used
  nrecords,     \* number of records of the input consumed by the loop of NpmRc::parse
  get_env_var,  \* the closure handed to NpmRc::parse: variable name -> Option<String>
  npm_rc,       \* the NpmRc under construction, then constructed
  resolved,     \* Option<outcome of NpmRc::as_resolved>
  expand_in,    \* the text handed to a direct call of expand_vars
  op            \* the last call made, with its arguments and what it returned

vars == <<pc, nrecords, get_env_var, npm_rc, resolved, expand_in, op>>

---------------------------------------------------------------------------
(* Bounds of the model *)

\* records of the input file consumed by one NpmRc::parse
MaxRecords == 2
\* length of the special-character core of a text handed to expand_vars
MaxExpandLen == 5

---------------------------------------------------------------------------
(* Option<T> and string helpers *)

None == <<>>
Some(v) == <<v>>
IsSome(o) == Len(o) = 1
Unwrap(o) == o[1]

\* str::ends_with(c)
EndsWith(s, c) == Len(s) > 0 /\ s[Len(s)] = c

\* str::find(c): index of the first c, 0 when there is none
Find(s, c) ==
  IF \E i \in 1..Len(s) : s[i] = c
  THEN CHOOSE i \in 1..Len(s) : s[i] = c /\ \A j \in 1..(i - 1) : s[j] # c
  ELSE 0

\* str::rfind(c): index of the last c, 0 when there is none
RFind(s, c) ==
  IF \E i \in 1..Len(s) : s[i] = c
  THEN CHOOSE i \in 1..Len(s) : s[i] = c /\ \A j \in (i + 1)..Len(s) : s[j] # c
  ELSE 0

\* index of the first "//" of s, 0 when there is none
FindDoubleSlash(s) ==
  IF \E i \in 1..(Len(s) - 1) : s[i] = "/" /\ s[i + 1] = "/"
  THEN CHOOSE i \in 1..(Len(s) - 1) :
         /\ s[i] = "/" /\ s[i + 1] = "/"
         /\ \A j \in 1..(i - 1) : ~(s[j] = "/" /\ s[j + 1] = "/")
  ELSE 0

\* str::strip_prefix(p): Some(rest) when s starts with p
StripPrefix(s, p) ==
  IF Len(s) >= Len(p) /\ SubSeq(s, 1, Len(p)) = p
  THEN Some(SubSeq(s, Len(p) + 1, Len(s)))
  ELSE None

\* str::split_once("//"): Some(<<left, right>>) around the first "//"
SplitOnceDoubleSlash(s) ==
  LET i == FindDoubleSlash(s)
  IN  IF i = 0 THEN None
      ELSE Some(<<SubSeq(s, 1, i - 1), SubSeq(s, i + 2, Len(s))>>)

\* str::split_once(c): Some(<<left, right>>) around the first c
SplitOnce(s, c) ==
  LET i == Find(s, c)
  IN  IF i = 0 THEN None
      ELSE Some(<<SubSeq(s, 1, i - 1), SubSeq(s, i + 1, Len(s))>>)

\* str::rsplit_once(c): Some(<<left, right>>) around the last c
RSplitOnce(s, c) ==
  LET i == RFind(s, c)
  IN  IF i = 0 THEN None
      ELSE Some(<<SubSeq(s, 1, i - 1), SubSeq(s, i + 1, Len(s))>>)

\* HashMap::insert
MapInsert(m, k, v) == [x \in DOMAIN m \cup {k} |-> IF x = k THEN v ELSE m[x]]

\* HashMap::new
EmptyMap == [x \in {} |-> None]

RECURSIVE StringsUpTo(_, _)
\* all strings over alphabet of length at most n
StringsUpTo(alphabet, n) ==
  IF n = 0 THEN {<<>>}
  ELSE LET shorter == StringsUpTo(alphabet, n - 1)
       IN  shorter \cup {<<c>> \o s : c \in alphabet, s \in {t \in shorter : Len(t) = n - 1}}

\* s contains the two characters "${" next to each other
HasPlaceholderStart(s) == \E i \in 1..(Len(s) - 1) : s[i] = "$" /\ s[i + 1] = "{"

---------------------------------------------------------------------------
(* String literals of the code and of the inputs *)

str_registry == <<"r","e","g","i","s","t","r","y">>
str_auth == <<"_","a","u","t","h">>
str_authToken == <<"_","a","u","t","h","T","o","k","e","n">>
str_username == <<"u","s","e","r","n","a","m","e">>
str_password == <<"_","p","a","s","s","w","o","r","d">>
str_email == <<"e","m","a","i","l">>
str_certfile == <<"c","e","r","t","f","i","l","e">>
str_keyfile == <<"k","e","y","f","i","l","e">>
\* a key suffix that names no credential field
str_other == <<"a","l","w","a","y","s","-","a","u","t","h">>

url_a == <<"h","t","t","p","s",":","/","/","a","/">>
url_ab == <<"h","t","t","p","s",":","/","/","a","/","b","/">>
url_ab_noslash == <<"h","t","t","p","s",":","/","/","a","/","b">>
url_A == <<"h","t","t","p","s",":","/","/","A","/">>
url_nohost == <<"h","t","t","p","s",":","/","/">>

txt_var == <<"$","{","X","}">>
txt_escaped == <<"\\","$","{","X","}">>
txt_a_escaped_b == <<"a","\\","$","{","X","}","b">>
txt_a_var_b == <<"a","$","{","X","}","b">>
txt_token == <<"T">>
var_X == <<"X">>

left_a == <<"/","/","a","/">>
left_ab == <<"/","/","a","/","b","/">>
left_a_noslash == <<"/","/","a">>
left_empty == <<"/","/">>

key_scope_b == <<"@","b",":","r","e","g","i","s","t","r","y">>
key_scope_c == <<"@","c",":","r","e","g","i","s","t","r","y">>
key_scope_b_email == <<"@","b",":","e","m","a","i","l">>

scope_b == <<"b">>
scope_c == <<"c">>

pkg_p == <<"p">>
pkg_b_p == <<"@","b","/","p">>
pkg_c_p == <<"@","c","/","p">>
pkg_b == <<"@","b">>

---------------------------------------------------------------------------
(* RegistryConfig *)

EMPTY_REGISTRY_CONFIG ==
  [auth |-> None, auth_token |-> None, username |-> None, password |-> None,
   email |-> None, certfile |-> None, keyfile |-> None]

\* NpmRc::default()
NpmRcDefault ==
  [registry |-> None, scope_registries |-> EmptyMap, registry_configs |-> EmptyMap]

---------------------------------------------------------------------------
(* expand_vars *)

\* a ParseResult of monch: Err(Backtrace), or Ok((rest, value))
Backtrace == [ok |-> FALSE, rest |-> <<>>, value |-> <<>>]
Ok(rest, value) == [ok |-> TRUE, rest |-> rest, value |-> value]

\* a mutant of escaped_char: the backslash escapes nothing
escaped_char_never(input) == Backtrace

\* preceded(ch('\\'), next_char): a backslash, then any one character, which is the value
escaped_char(input) ==
  IF Len(input) >= 2 /\ input[1] = "\\"
  THEN Ok(SubSeq(input, 3, Len(input)), <<input[2]>>)
  ELSE Backtrace

\* the body of env_var after the opening tag: the name up to '}', refused when it
\* holds '$', '{' or '\', then the closing '}'
env_var_after_tag(after_tag) ==
  LET close == Find(after_tag, "}")
      var_name == IF close = 0 THEN after_tag ELSE SubSeq(after_tag, 1, close - 1)
      rest == IF close = 0 THEN <<>> ELSE SubSeq(after_tag, close, Len(after_tag))
  IN  IF \E i \in 1..Len(var_name) : var_name[i] \in {"$", "{", "\\"} THEN Backtrace
      ELSE IF rest = <<>> THEN Backtrace
      ELSE Ok(Tail(rest), var_name)

\* a mutant of env_var: the opening tag is "$" alone
env_var_short_tag(input) ==
  IF Len(input) >= 1 /\ input[1] = "$"
  THEN env_var_after_tag(Tail(input))
  ELSE Backtrace

\* env_var: tag("${"), take_while(|c| c != '}'), the name check, ch('}')
env_var(input) ==
  IF Len(input) >= 2 /\ input[1] = "$" /\ input[2] = "{"
  THEN env_var_after_tag(SubSeq(input, 3, Len(input)))
  ELSE Backtrace

\* a call of the closure get_env_var
CallGetEnvVar(env, var_name) ==
  IF var_name \in DOMAIN env THEN env[var_name] ELSE None

RECURSIVE many0_or3(_, _)
\* many0(or3(escaped_char, env_var, next_char)) and the join of its results:
\* out is the joined text, asked the names get_env_var was called with
many0_or3(input, env) ==
  IF input = <<>> THEN [out |-> <<>>, asked |-> {}]
  ELSE
    LET e == escaped_char(input)
        v == env_var(input)
    IN  IF e.ok
        THEN LET r == many0_or3(e.rest, env)
             IN  [out |-> e.value \o r.out, asked |-> r.asked]
        ELSE IF v.ok
        THEN LET r == many0_or3(v.rest, env)
                 var_value == CallGetEnvVar(env, v.value)
             IN  [out |-> (IF IsSome(var_value) THEN Unwrap(var_value)
                           ELSE <<"$", "{">> \o v.value \o <<"}">>) \o r.out,
                  asked |-> {v.value} \cup r.asked]
        ELSE LET r == many0_or3(Tail(input), env)
             IN  [out |-> <<Head(input)>> \o r.out, asked |-> r.asked]

\* expand_vars(input, get_env_var)
expand_vars(input, env) == many0_or3(input, env).out

\* the names expand_vars(input, get_env_var) calls get_env_var with
expand_vars_asked(input, env) == many0_or3(input, env).asked

---------------------------------------------------------------------------
(* NpmRc::parse: the body of the loop, for one record of the tokenizer *)

Section == [kind |-> "Section", key |-> [tag |-> "Plain", text |-> <<>>],
            value |-> [tag |-> "String", text |-> <<>>]]
KeyValue(key_tag, key, value_tag, text) ==
  [kind |-> "KeyValue", key |-> [tag |-> key_tag, text |-> key],
   value |-> [tag |-> value_tag, text |-> text]]
PlainKv(key, text) == KeyValue("Plain", key, "String", text)

\* the match on `right`: the field of config the value is stored in
SetField(config, right, value) ==
  CASE right = str_auth      -> [config EXCEPT !.auth = Some(value)]
    [] right = str_authToken -> [config EXCEPT !.auth_token = Some(value)]
    [] right = str_username  -> [config EXCEPT !.username = Some(value)]
    [] right = str_password  -> [config EXCEPT !.password = Some(value)]
    [] right = str_email     -> [config EXCEPT !.email = Some(value)]
    [] right = str_certfile  -> [config EXCEPT !.certfile = Some(value)]
    [] right = str_keyfile   -> [config EXCEPT !.keyfile = Some(value)]
    [] OTHER                 -> config

\* registry_configs.entry(host_and_path).or_default(), then the match on `right`
UpdateRegistryConfigs(configs, host_and_path, right, value) ==
  LET config == IF host_and_path \in DOMAIN configs THEN configs[host_and_path]
                ELSE EMPTY_REGISTRY_CONFIG
  IN  MapInsert(configs, host_and_path, SetField(config, right, value))

\* one iteration of `for kv_or_section in kv_or_sections`
parse_kv(rc_file, kv, env) ==
  IF kv.kind # "KeyValue" \/ kv.key.tag # "Plain" THEN rc_file
  ELSE
    LET key == kv.key.text
        split == RSplitOnce(key, ":")
        is_string == kv.value.tag = "String"
        value == expand_vars(kv.value.text, env)
    IN  IF IsSome(split)
        THEN LET left == Unwrap(split)[1]
                 right == Unwrap(split)[2]
                 scope == StripPrefix(left, <<"@">>)
                 host_and_path == StripPrefix(left, <<"/", "/">>)
             IN  IF IsSome(scope)
                 THEN IF right = str_registry /\ is_string
                      THEN [rc_file EXCEPT !.scope_registries =
                              MapInsert(@, Unwrap(scope), value)]
                      ELSE rc_file
                 ELSE IF IsSome(host_and_path) /\ is_string
                 THEN [rc_file EXCEPT !.registry_configs =
                         UpdateRegistryConfigs(@, Unwrap(host_and_path), right, value)]
                 ELSE rc_file
        ELSE IF key = str_registry /\ is_string
        THEN [rc_file EXCEPT !.registry = Some(value)]
        ELSE rc_file

\* the names get_env_var is called with while the record is processed: expand_vars
\* runs only in the three places a string value is stored
parse_kv_asked(kv, env) ==
  IF kv.kind # "KeyValue" \/ kv.key.tag # "Plain" \/ kv.value.tag # "String" THEN {}
  ELSE
    LET key == kv.key.text
        split == RSplitOnce(key, ":")
        expands ==
          IF IsSome(split)
          THEN LET left == Unwrap(split)[1]
                   right == Unwrap(split)[2]
               IN  IF IsSome(StripPrefix(left, <<"@">>)) THEN right = str_registry
                   ELSE IsSome(StripPrefix(left, <<"/", "/">>))
          ELSE key = str_registry
    IN  IF expands THEN expand_vars_asked(kv.value.text, env) ELSE {}

---------------------------------------------------------------------------
(* NpmRc::registry_url_and_config_for_maybe_scope *)

\* what the call returns: Some((url, config)), None, or a panic.  `at` is the key of
\* registry_configs the returned reference points into (None: the static
\* EMPTY_REGISTRY_CONFIG), config the record it points at
ResultSome(url, at, config) == [kind |-> "Some", url |-> url, at |-> at, config |-> config]
ResultNone == [kind |-> "None", url |-> <<>>, at |-> None, config |-> EMPTY_REGISTRY_CONFIG]
ResultPanic == [kind |-> "Panic", url |-> <<>>, at |-> None, config |-> EMPTY_REGISTRY_CONFIG]

\* the scope's entry of scope_registries, or the registry, or env_registry_url
base_registry_url(rc, maybe_scope_name, env_registry_url) ==
  IF IsSome(maybe_scope_name) /\ Unwrap(maybe_scope_name) \in DOMAIN rc.scope_registries
  THEN rc.scope_registries[Unwrap(maybe_scope_name)]
  ELSE IF IsSome(rc.registry) THEN Unwrap(rc.registry)
  ELSE env_registry_url

\* a mutant of original_registry_url: the slash is appended whatever the string ends in
original_registry_url_always(registry_url) == registry_url \o <<"/">>

\* the registry url with a '/' appended when it does not end in one
original_registry_url(registry_url) ==
  IF EndsWith(registry_url, "/") THEN registry_url ELSE registry_url \o <<"/">>

\* the key the walk starts at: the scheme-stripped url, then the scope and a '/'
start_url(registry_url, maybe_scope_name) ==
  IF IsSome(maybe_scope_name)
  THEN registry_url \o Unwrap(maybe_scope_name) \o <<"/">>
  ELSE registry_url

\* a mutant of next_slash_index: the first '/' instead of the last
next_slash_index_first(url) == Find(SubSeq(url, 1, Len(url) - 1), "/")

\* url[..url.len() - 1].rfind('/'), for a url that is not empty: 0 when there is none
next_slash_index(url) == RFind(SubSeq(url, 1, Len(url) - 1), "/")

RECURSIVE walk(_, _, _, _)
\* the loop: a hit returns the entry; an empty url panics in url.len() - 1 (the
\* subtraction overflows, or wraps and the slice is out of range); a url with no
\* earlier '/' ends the walk; otherwise the url is cut after that '/'
walk(rc, url, original, env_registry_url) ==
  IF url \in DOMAIN rc.registry_configs
  THEN ResultSome(original, Some(url), rc.registry_configs[url])
  ELSE IF Len(url) = 0 THEN ResultPanic
  ELSE LET i == next_slash_index(url)
       IN  IF i = 0
           THEN IF original = env_registry_url THEN ResultNone
                ELSE ResultSome(original, None, EMPTY_REGISTRY_CONFIG)
           ELSE walk(rc, SubSeq(url, 1, i), original, env_registry_url)

registry_url_and_config_for_maybe_scope(rc, maybe_scope_name, env_registry_url) ==
  LET original == original_registry_url(
                    base_registry_url(rc, maybe_scope_name, env_registry_url))
      split == SplitOnceDoubleSlash(original)
  IN  IF ~IsSome(split) THEN ResultNone
      ELSE walk(rc, start_url(Unwrap(split)[2], maybe_scope_name),
                original, env_registry_url)

\* the scope of "@scope/name"; None for a name with no '@' in front or no '/'
get_scope_name(package_name) ==
  LET no_at_pkg_name == StripPrefix(package_name, <<"@">>)
  IN  IF ~IsSome(no_at_pkg_name) THEN None
      ELSE LET split == SplitOnce(Unwrap(no_at_pkg_name), "/")
           IN  IF IsSome(split) THEN Some(Unwrap(split)[1]) ELSE None

registry_url_and_config_for_package(rc, package_name, env_registry_url) ==
  registry_url_and_config_for_maybe_scope(rc, get_scope_name(package_name),
                                          env_registry_url)

---------------------------------------------------------------------------
(* Url::parse, as far as the strings of this model go: a scheme, ':', the slashes  *)
(* (a special scheme such as https takes any number), a host that is not empty,    *)
(* and the path.  The Url is kept as its serialization (Url::as_str): scheme and   *)
(* host in lower case, the path "/" when the string has none.                      *)

Alpha == {"a", "b", "c", "h", "p", "s", "t", "A", "T", "X"}

ToLower(c) == CASE c = "A" -> "a" [] c = "T" -> "t" [] c = "X" -> "x" [] OTHER -> c

ToLowerStr(s) == [i \in 1..Len(s) |-> ToLower(s[i])]

RECURSIVE SkipSlashes(_)
SkipSlashes(s) == IF Len(s) > 0 /\ s[1] = "/" THEN SkipSlashes(Tail(s)) ELSE s

UrlParse(s) ==
  LET colon == Find(s, ":")
      scheme == SubSeq(s, 1, colon - 1)
      rest == SkipSlashes(SubSeq(s, colon + 1, Len(s)))
      slash == Find(rest, "/")
      host == IF slash = 0 THEN rest ELSE SubSeq(rest, 1, slash - 1)
      path == IF slash = 0 THEN <<"/">> ELSE SubSeq(rest, slash, Len(rest))
  IN  IF colon <= 1 \/ \E i \in 1..Len(scheme) : scheme[i] \notin Alpha THEN None
      ELSE IF host = <<>> \/ \E i \in 1..Len(host) : host[i] \notin Alpha THEN None
      ELSE Some(ToLowerStr(scheme) \o <<":", "/", "/">> \o ToLowerStr(host) \o path)

---------------------------------------------------------------------------
(* NpmRc::as_resolved and ResolvedNpmRc *)

RegistryConfigWithUrl(url, config) == [registry_url |-> url, config |-> config]

AsResolvedOk(view) == [status |-> "Ok", value |-> view]
AsResolvedErr(message, scope) ==
  [status |-> "Err", value |-> [message |-> message, scope |-> scope]]
AsResolvedPanic == [status |-> "Panic", value |-> <<>>]

\* the scopes whose iteration of the loop leaves as_resolved with an error: the
\* resolver returns None, or a url that Url::parse refuses
ScopeFails(rc, scope, env_registry_url) ==
  LET r == registry_url_and_config_for_maybe_scope(rc, Some(scope), env_registry_url)
  IN  r.kind = "None" \/ (r.kind = "Some" /\ ~IsSome(UrlParse(r.url)))

\* the error of the iteration for a scope that fails
ScopeError(rc, scope, env_registry_url) ==
  LET r == registry_url_and_config_for_maybe_scope(rc, Some(scope), env_registry_url)
  IN  IF r.kind = "None"
      THEN AsResolvedErr("failed resolving .npmrc config for scope", Some(scope))
      ELSE AsResolvedErr("failed parsing npm registry url for scope", Some(scope))

\* the entry the loop inserts for a scope
ScopeEntry(rc, scope, env_registry_url) ==
  LET r == registry_url_and_config_for_maybe_scope(rc, Some(scope), env_registry_url)
  IN  RegistryConfigWithUrl(Unwrap(UrlParse(r.url)), r.config)

\* what as_resolved returns once the loop over the scopes has gone through
as_resolved_default(rc, scopes, env_registry_url) ==
  LET r == registry_url_and_config_for_maybe_scope(rc, None, env_registry_url)
  IN  CASE r.kind = "Panic" -> AsResolvedPanic
        [] r.kind = "None" ->
             AsResolvedOk([default_config |->
                             RegistryConfigWithUrl(env_registry_url, EMPTY_REGISTRY_CONFIG),
                           scopes |-> scopes])
        [] OTHER ->
             IF IsSome(UrlParse(r.url))
             THEN AsResolvedOk([default_config |->
                                  RegistryConfigWithUrl(Unwrap(UrlParse(r.url)), r.config),
                                scopes |-> scopes])
             ELSE AsResolvedErr("failed parsing npm registry url", None)

\* every outcome as_resolved can have: the loop goes through the keys of the HashMap
\* in an order the program does not fix, and the first scope that fails ends it
as_resolved(rc, env_registry_url) ==
  LET keys == DOMAIN rc.scope_registries
      panics == {k \in keys :
                   registry_url_and_config_for_maybe_scope(rc, Some(k), env_registry_url).kind
                     = "Panic"}
      failing == {k \in keys : ScopeFails(rc, k, env_registry_url)}
  IN  IF panics # {} \/ failing # {}
      THEN {AsResolvedPanic : k \in panics}
             \cup {ScopeError(rc, k, env_registry_url) : k \in failing}
      ELSE {as_resolved_default(rc,
                                [k \in keys |-> ScopeEntry(rc, k, env_registry_url)],
                                env_registry_url)}

\* a mutant of view_entry: the entry of the default registry, whatever the scope
view_entry_default(view, package_name) == view.default_config

\* the entry get_registry_url and get_registry_config read: the scope's, when the
\* package has a scope and the view knows it, else the default one
view_entry(view, package_name) ==
  LET scope_name == get_scope_name(package_name)
  IN  IF IsSome(scope_name) /\ Unwrap(scope_name) \in DOMAIN view.scopes
      THEN view.scopes[Unwrap(scope_name)]
      ELSE view.default_config

get_registry_url(view, package_name) == view_entry(view, package_name).registry_url

get_registry_config(view, package_name) == view_entry(view, package_name).config

---------------------------------------------------------------------------
(* The inputs *)

\* the closures handed to NpmRc::parse: X is not set, or X is set
EnvChoices == {[n \in {var_X} |-> None], [n \in {var_X} |-> Some(url_ab)]}

CredentialSuffixes ==
  {str_auth, str_authToken, str_username, str_password, str_email, str_certfile,
   str_keyfile}

CredKey(left, right) == left \o <<":">> \o right

\* the records the tokenizer hands to the loop of NpmRc::parse
RegistryRecords ==
  {PlainKv(str_registry, text) : text \in {url_a, url_ab_noslash, url_nohost, txt_var}}

ScopeRecords ==
  {PlainKv(key_scope_b, text) : text \in {url_a, url_ab_noslash, url_A, txt_var, txt_escaped}}
    \cup {PlainKv(key_scope_c, url_a)}

CredRecords ==
  {PlainKv(CredKey(left_a, right), txt_token) : right \in CredentialSuffixes \cup {str_other}}
    \cup {PlainKv(CredKey(left_ab, right), txt_token) : right \in {str_authToken, str_other}}
    \cup {PlainKv(CredKey(left, str_authToken), txt_token) : left \in {left_a_noslash, left_empty}}
    \cup {PlainKv(CredKey(left_a, str_authToken), text) : text \in {txt_var, txt_a_escaped_b}}

IgnoredRecords ==
  {Section,
   KeyValue("Quoted", str_registry, "String", url_a),
   KeyValue("Plain", str_registry, "Other", url_a),
   PlainKv(key_scope_b_email, txt_token),
   PlainKv(str_email, txt_token)}

Records == RegistryRecords \cup ScopeRecords \cup CredRecords \cup IgnoredRecords

\* the fallback registry urls handed to the resolver
FallbackUrls == {url_a, url_ab_noslash, url_nohost}

\* the package names asked for
PackageNames == {pkg_p, pkg_b_p, pkg_c_p, pkg_b}

\* the texts handed to expand_vars directly
ExpandInputs ==
  {prefix \o core \o suffix :
     prefix \in {<<>>, <<"a">>},
     core \in StringsUpTo({"\\", "$", "{", "}", "X"}, MaxExpandLen),
     suffix \in {<<>>, <<"b">>}}

---------------------------------------------------------------------------
(* The state machine *)

NoOp == [fn |-> "none"]

Init ==
  /\ pc = "parsing"
  /\ nrecords = 0
  /\ get_env_var \in EnvChoices
  /\ npm_rc = NpmRcDefault
  /\ resolved = None
  /\ expand_in = <<>>
  /\ op = NoOp

\* NpmRc::parse, one iteration of its loop
ParseKv(kv) ==
  /\ pc = "parsing"
  /\ nrecords < MaxRecords
  /\ npm_rc' = parse_kv(npm_rc, kv, get_env_var)
  /\ nrecords' = nrecords + 1
  /\ op' = [fn |-> "parse_kv", kv |-> kv, asked |-> parse_kv_asked(kv, get_env_var)]
  /\ UNCHANGED <<pc, get_env_var, resolved, expand_in>>

\* NpmRc::parse, the end of the input: Ok(rc_file)
ParseDone ==
  /\ pc = "parsing"
  /\ pc' = "parsed"
  /\ op' = [fn |-> "parse"]
  /\ UNCHANGED <<nrecords, get_env_var, npm_rc, resolved, expand_in>>

\* NpmRc::registry_url_and_config_for_package
ResolveForPackage(package_name, env_registry_url) ==
  /\ pc = "parsed"
  /\ op' = [fn |-> "registry_url_and_config_for_package",
            package_name |-> package_name,
            env_registry_url |-> env_registry_url,
            result |-> registry_url_and_config_for_package(npm_rc, package_name,
                                                           env_registry_url)]
  /\ UNCHANGED <<pc, nrecords, get_env_var, npm_rc, resolved, expand_in>>

\* NpmRc::as_resolved; env_registry_url is a Url, so the serialization of one
AsResolved(env_registry_url) ==
  /\ pc = "parsed"
  /\ UrlParse(env_registry_url) = Some(env_registry_url)
  /\ \E outcome \in as_resolved(npm_rc, env_registry_url) :
       /\ resolved' = Some(outcome)
       /\ op' = [fn |-> "as_resolved", env_registry_url |-> env_registry_url]
  /\ pc' = "resolved"
  /\ UNCHANGED <<nrecords, get_env_var, npm_rc, expand_in>>

\* the view as_resolved returned, when it returned one
HasView == pc = "resolved" /\ IsSome(resolved) /\ Unwrap(resolved).status = "Ok"
View == Unwrap(resolved).value

\* ResolvedNpmRc::get_registry_url
GetRegistryUrl(package_name) ==
  /\ HasView
  /\ op' = [fn |-> "get_registry_url", package_name |-> package_name,
            env_registry_url |-> op.env_registry_url,
            result |-> get_registry_url(View, package_name)]
  /\ UNCHANGED <<pc, nrecords, get_env_var, npm_rc, resolved, expand_in>>

\* ResolvedNpmRc::get_registry_config
GetRegistryConfig(package_name) ==
  /\ HasView
  /\ op' = [fn |-> "get_registry_config", package_name |-> package_name,
            env_registry_url |-> op.env_registry_url,
            result |-> get_registry_config(View, package_name)]
  /\ UNCHANGED <<pc, nrecords, get_env_var, npm_rc, resolved, expand_in>>

Next ==
  \/ \E kv \in Records : ParseKv(kv)
  \/ ParseDone
  \/ \E p \in PackageNames, u \in FallbackUrls : ResolveForPackage(p, u)
  \/ \E u \in FallbackUrls : AsResolved(u)
  \/ \E p \in PackageNames : GetRegistryUrl(p)
  \/ \E p \in PackageNames : GetRegistryConfig(p)

Spec == Init /\ [][Next]_vars

---------------------------------------------------------------------------
(* expand_vars called directly, on each text of ExpandInputs *)

InitExpand ==
  /\ pc = "expand"
  /\ nrecords = 0
  /\ get_env_var \in EnvChoices
  /\ npm_rc = NpmRcDefault
  /\ resolved = None
  /\ expand_in \in ExpandInputs
  /\ op = NoOp

ExpandVars ==
  /\ pc = "expand"
  /\ op = NoOp
  /\ op' = [fn |-> "expand_vars",
            result |-> expand_vars(expand_in, get_env_var),
            asked |-> expand_vars_asked(expand_in, get_env_var)]
  /\ UNCHANGED <<pc, nrecords, get_env_var, npm_rc, resolved, expand_in>>

NextExpand == ExpandVars

SpecExpand == InitExpand /\ [][NextExpand]_vars

---------------------------------------------------------------------------
(* What the claims speak of *)

\* the last call was the resolver for a package
Resolving == op.fn = "registry_url_and_config_for_package"

\* the scope the resolver was called with
ScopeAsked == get_scope_name(op.package_name)

\* the scope has an entry in scope_registries
ScopeKnown(scope) == IsSome(scope) /\ Unwrap(scope) \in DOMAIN npm_rc.scope_registries

\* the base string in the priority order: scope registry, registry, fallback url
Chosen(scope, fallback_url) ==
  IF ScopeKnown(scope) THEN npm_rc.scope_registries[Unwrap(scope)]
  ELSE IF npm_rc.registry # None THEN Unwrap(npm_rc.registry)
  ELSE fallback_url

\* s with a '/' at its end
WithSlash(s) == IF EndsWith(s, "/") THEN s ELSE s \o <<"/">>

\* s has a "//"
HasScheme(s) == \E i \in 1..(Len(s) - 1) : s[i] = "/" /\ s[i + 1] = "/"

\* what follows the first "//" of s
SchemeStripped(s) ==
  LET i == CHOOSE i \in 1..(Len(s) - 1) :
             /\ s[i] = "/" /\ s[i + 1] = "/"
             /\ \A j \in 1..(i - 1) : ~(s[j] = "/" /\ s[j + 1] = "/")
  IN  SubSeq(s, i + 2, Len(s))

\* the start key K of the resolution of scope against fallback_url
StartKey(scope, fallback_url) ==
  SchemeStripped(WithSlash(Chosen(scope, fallback_url)))
    \o (IF IsSome(scope) THEN Unwrap(scope) \o <<"/">> ELSE <<>>)

\* k is a '/'-terminated path-segment prefix of key
IsSegmentPrefix(k, key) ==
  /\ Len(k) >= 1
  /\ Len(k) <= Len(key)
  /\ k[Len(k)] = "/"
  /\ SubSeq(key, 1, Len(k)) = k

\* the keys of registry_configs that are such prefixes of key
MatchingKeys(key) == {k \in DOMAIN npm_rc.registry_configs : IsSegmentPrefix(k, key)}

\* the longest of a set of keys that is not empty
Longest(keys) == CHOOSE k \in keys : \A other \in keys : Len(other) <= Len(k)

\* C1: whenever a '/'-terminated path-segment prefix of the start key K (K itself
\* included) is a key of registry_configs, the resolver returns the record stored at
\* the longest such prefix, also when shorter prefixes are keys too
Theorem_C1 ==
  (Resolving /\ HasScheme(WithSlash(Chosen(ScopeAsked, op.env_registry_url))))
    => LET matching == MatchingKeys(StartKey(ScopeAsked, op.env_registry_url))
       IN  matching # {}
             => /\ op.result.kind = "Some"
                /\ op.result.at = Some(Longest(matching))
                /\ op.result.config = npm_rc.registry_configs[Longest(matching)]

\* two prefixes of the start key are keys, the longer one is not the start key
\* itself, and the record of the longer one was returned
Witness_C1 ==
  /\ Resolving
  /\ HasScheme(WithSlash(Chosen(ScopeAsked, op.env_registry_url)))
  /\ LET key == StartKey(ScopeAsked, op.env_registry_url)
         matching == MatchingKeys(key)
     IN  /\ Cardinality(matching) >= 2
         /\ Longest(matching) # key
         /\ op.result.kind = "Some"
         /\ op.result.at = Some(Longest(matching))

\* C2, as claimed: for a scope with an entry in scope_registries whose lookup key has
\* no prefix among the keys of registry_configs, the resolver returns the scope's
\* registry url (with its '/') and a record with all seven fields absent, never
\* nothing; also when the scope's registry equals the fallback url
Claim_C2 ==
  (/\ Resolving
   /\ ScopeKnown(ScopeAsked)
   /\ HasScheme(WithSlash(Chosen(ScopeAsked, op.env_registry_url)))
   /\ MatchingKeys(StartKey(ScopeAsked, op.env_registry_url)) = {})
    => /\ op.result.kind = "Some"
       /\ op.result.url = WithSlash(npm_rc.scope_registries[Unwrap(ScopeAsked)])
       /\ op.result.config = EMPTY_REGISTRY_CONFIG

\* C3, as claimed: with no registry directive, no scope registry that applies, and no
\* key of registry_configs at any prefix of the host and path of the fallback url
\* (written with or without its last '/'), the resolver returns nothing
Claim_C3 ==
  (/\ Resolving
   /\ npm_rc.registry = None
   /\ ~ScopeKnown(ScopeAsked)
   /\ HasScheme(op.env_registry_url)
   /\ SchemeStripped(op.env_registry_url) # <<>>
   /\ MatchingKeys(SchemeStripped(WithSlash(op.env_registry_url))) = {})
    => op.result.kind = "None"

\* C4: a result of the resolver carries the base string of the priority order (scope
\* registry, registry, fallback url), with a '/' appended exactly when it does not
\* end in one; the scope in the key and the prefix that matched do not change it
Theorem_C4 ==
  (Resolving /\ op.result.kind = "Some")
    => LET chosen == Chosen(ScopeAsked, op.env_registry_url)
       IN  op.result.url = IF EndsWith(chosen, "/") THEN chosen ELSE chosen \o <<"/">>

\* a result for a scope with a registry of its own, whose base ends in '/', found at
\* a prefix shorter than the key
Witness_C4 ==
  /\ Resolving
  /\ op.result.kind = "Some"
  /\ ScopeKnown(ScopeAsked)
  /\ EndsWith(Chosen(ScopeAsked, op.env_registry_url), "/")
  /\ IsSome(op.result.at)
  /\ Len(Unwrap(op.result.at)) < Len(StartKey(ScopeAsked, op.env_registry_url))

\* the record is a plain, string-valued `//host/path/:suffix` whose suffix names no
\* credential field
IsOtherSuffixRecord(kv) ==
  /\ kv.kind = "KeyValue" /\ kv.key.tag = "Plain" /\ kv.value.tag = "String"
  /\ \E i \in 3..Len(kv.key.text) :
       /\ kv.key.text[i] = ":"
       /\ \A j \in (i + 1)..Len(kv.key.text) : kv.key.text[j] # ":"
       /\ SubSeq(kv.key.text, 1, 2) = <<"/", "/">>
       /\ kv.key.text[i - 1] = "/"
       /\ SubSeq(kv.key.text, i + 1, Len(kv.key.text)) \notin CredentialSuffixes

\* C5, as claimed: a record `//host/path/:suffix` whose suffix is none of the seven
\* credential suffixes leaves registry_configs as it was
Claim_C5 ==
  [][(op'.fn = "parse_kv" /\ IsOtherSuffixRecord(op'.kv))
       => npm_rc'.registry_configs = npm_rc.registry_configs]_vars

\* the last call was expand_vars, called directly
Expanding == op.fn = "expand_vars"

\* every backslash of s is its last character
BackslashOnlyLast(s) == \A i \in 1..(Len(s) - 1) : s[i] # "\\"

\* C6, as claimed: expand_vars returns every text with no "${" as it is, backslashes
\* or not
Claim_C6 == (Expanding /\ ~HasPlaceholderStart(expand_in)) => op.result = expand_in

\* C6, amended: expand_vars returns as it is every text that has no "${" and no
\* backslash other than as its last character
Theorem_C6 ==
  (Expanding /\ ~HasPlaceholderStart(expand_in) /\ BackslashOnlyLast(expand_in))
    => op.result = expand_in

\* a text with a '$', a '{' and a last backslash, and no "${", came back as it is
Witness_C6 ==
  /\ Expanding
  /\ ~HasPlaceholderStart(expand_in)
  /\ BackslashOnlyLast(expand_in)
  /\ EndsWith(expand_in, "\\")
  /\ \E i, j \in 1..Len(expand_in) : expand_in[i] = "$" /\ expand_in[j] = "{"
  /\ op.result = expand_in

\* the last step of the builder stored the expansion of a string value
Storing ==
  /\ op.fn = "parse_kv"
  /\ op.kv.kind = "KeyValue" /\ op.kv.key.tag = "Plain" /\ op.kv.value.tag = "String"
  /\ op.kv.key.text \in {str_registry, key_scope_b, CredKey(left_a, str_authToken)}

\* what the builder holds where the key of the last record says
Stored ==
  CASE op.kv.key.text = str_registry -> npm_rc.registry
    [] op.kv.key.text = key_scope_b ->
         IF scope_b \in DOMAIN npm_rc.scope_registries
         THEN Some(npm_rc.scope_registries[scope_b]) ELSE None
    [] OTHER ->
         IF <<"a", "/">> \in DOMAIN npm_rc.registry_configs
         THEN npm_rc.registry_configs[<<"a", "/">>].auth_token ELSE None

\* C7: the text a\${X}b is stored as a${X}b whatever get_env_var returns for X, and
\* get_env_var is not called; a value written \${X} is stored as ${X}, and one
\* written ${X} as what get_env_var returns for X
Theorem_C7 ==
  Storing
    => /\ op.kv.value.text = txt_a_escaped_b
            => (Stored = Some(txt_a_var_b) /\ op.asked = {})
       /\ op.kv.value.text = txt_escaped
            => (Stored = Some(txt_var) /\ op.asked = {})
       /\ (op.kv.value.text = txt_var /\ IsSome(get_env_var[var_X]))
            => (Stored = get_env_var[var_X] /\ op.asked = {var_X})

\* with X set: ${X} was stored expanded as the registry, and then \${X} as it is
\* for the scope
Witness_C7 ==
  /\ Storing
  /\ IsSome(get_env_var[var_X])
  /\ op.kv.key.text = key_scope_b
  /\ op.kv.value.text = txt_escaped
  /\ npm_rc.scope_registries[scope_b] = txt_var
  /\ npm_rc.registry = get_env_var[var_X]

\* as_resolved has been called, and nothing since
Built == op.fn = "as_resolved"

\* every scope registry, with its '/', and the registry are urls Url::parse accepts
RegistriesAreUrls ==
  /\ \A k \in DOMAIN npm_rc.scope_registries :
       IsSome(UrlParse(WithSlash(npm_rc.scope_registries[k])))
  /\ npm_rc.registry # None => IsSome(UrlParse(WithSlash(Unwrap(npm_rc.registry))))

\* C8, as claimed: when every scope registry and the registry are valid urls,
\* as_resolved succeeds, and its view holds one entry for each key of
\* scope_registries, with the url and the record the resolver returns for the scope
Claim_C8 ==
  (Built /\ RegistriesAreUrls)
    => /\ Unwrap(resolved).status = "Ok"
       /\ DOMAIN View.scopes = DOMAIN npm_rc.scope_registries
       /\ \A k \in DOMAIN npm_rc.scope_registries :
            LET r == registry_url_and_config_for_maybe_scope(npm_rc, Some(k),
                                                             op.env_registry_url)
            IN  /\ r.kind = "Some"
                /\ View.scopes[k].registry_url = Unwrap(UrlParse(r.url))
                /\ View.scopes[k].config = r.config

\* C9, as claimed: every key of registry_configs ends in '/'
Claim_C9 == \A k \in DOMAIN npm_rc.registry_configs : EndsWith(k, "/")

\* the last call was a lookup in the view
LookingUpUrl == op.fn = "get_registry_url"
LookingUpConfig == op.fn = "get_registry_config"

\* what the resolver returns for the package, nothing read as the fallback url with
\* an empty record
Direct(package_name, fallback_url) ==
  LET r == registry_url_and_config_for_package(npm_rc, package_name, fallback_url)
  IN  IF r.kind = "None" THEN [url |-> fallback_url, config |-> EMPTY_REGISTRY_CONFIG]
      ELSE [url |-> r.url, config |-> r.config]

\* the package the view treats the package as: one with no scope, when the scope has
\* no entry in scope_registries
ViewPackage(package_name) ==
  IF ScopeKnown(get_scope_name(package_name)) THEN package_name ELSE pkg_p

\* C10, as claimed: for every package name the view gives the url and the record the
\* resolver returns for the package
Claim_C10 ==
  /\ LookingUpUrl => op.result = Direct(op.package_name, op.env_registry_url).url
  /\ LookingUpConfig => op.result = Direct(op.package_name, op.env_registry_url).config

\* C10, amended: for a package with no scope, or with a scope that has an entry in
\* scope_registries, the view gives the record the resolver returns for the package,
\* and the url the resolver returns as Url::parse serializes it; for a package whose
\* scope has no entry it gives those of the package with no scope
Theorem_C10 ==
  /\ LookingUpUrl
       => LET direct == Direct(ViewPackage(op.package_name), op.env_registry_url)
          IN  op.result = Unwrap(UrlParse(direct.url))
  /\ LookingUpConfig
       => op.result = Direct(ViewPackage(op.package_name), op.env_registry_url).config

\* the view gave, for a package of a scope with an entry, a record that is not empty
\* and not the one of the default registry
Witness_C10 ==
  /\ LookingUpConfig
  /\ ScopeKnown(get_scope_name(op.package_name))
  /\ op.result # EMPTY_REGISTRY_CONFIG
  /\ op.result # View.default_config.config
  /\ op.result = Direct(op.package_name, op.env_registry_url).config

\* C11, as claimed: the resolver always returns, nothing or a url with a record, and
\* never aborts; also when the scheme-stripped registry string is empty and there is
\* no scope
Claim_C11 == Resolving => op.result.kind \in {"None", "Some"}

====
